---- MODULE Spec2Model ----
(***************************************************************************)
(* Model of src/src/lib.rs (elastic-responses): the Response envelope's    *)
(* aggs() accessor, AggregationIterator::new and AggregationIterator::next *)
(* - the stack-of-cursors traversal that flattens the "aggregations" tree  *)
(* into rows.                                                              *)
(***************************************************************************)
EXTENDS Integers, Sequences, FiniteSets, TLC

(***************************************************************************)
(* Bounds of the model.                                                    *)
(***************************************************************************)
\* longest "buckets" array of the generated trees
MaxBuckets == 2

(***************************************************************************)
(* Option<T>                                                               *)
(***************************************************************************)
None == [some |-> FALSE]
Some(x) == [some |-> TRUE, v |-> x]

(***************************************************************************)
(* serde_json::Value.  A scalar (number, string, bool, null) is opaque to  *)
(* the code: it is only ever stored by reference, so it is modelled by its *)
(* place in the tree (field `of` of the bucket numbered `id`).             *)
(***************************************************************************)
Scalar(of, id) == [t |-> "scalar", of |-> of, id |-> id]
Obj(o) == [t |-> "object", o |-> o]
Arr(a) == [t |-> "array", a |-> a]

\* the object with no field
EmptyMap == [k \in {} |-> None]

\* Value::as_object
as_object(v) == IF v.t = "object" THEN Some(v.o) ELSE None

\* Value::as_array
as_array(v) == IF v.t = "array" THEN Some(v.a) ELSE None

\* BTreeMap::get
get(o, k) == IF k \in DOMAIN o THEN Some(o[k]) ELSE None

\* insert into a map emptied first
insert_cleared(m, k, v) == (k :> v)

\* BTreeMap::insert, the new value replacing an old one
insert(m, k, v) == (k :> v) @@ m

\* Every key of the modelled objects that is iterated over, in the byte order
\* of String, which is the iteration order of BTreeMap<String, Value>.
KeyOrder ==
    << "G", "H", "M", "a2", "bad", "doc_count", "g2", "key", "m", "st", "sub", "xst" >>

\* SortedKeys in descending order
SortedKeysReversed(o) ==
    LET ks == SelectSeq(KeyOrder, LAMBDA k : k \in DOMAIN o)
    IN  [i \in 1..Len(ks) |-> ks[Len(ks) + 1 - i]]

\* the keys of object o in iteration order
SortedKeys(o) == SelectSeq(KeyOrder, LAMBDA k : k \in DOMAIN o)

(***************************************************************************)
(* The trees the model is run on.  A tree is built from a shape: a bucket  *)
(* shape names the fields the bucket carries (tag) and, per nested bucket  *)
(* aggregation, the shapes of its buckets (subs).  Every scalar of the     *)
(* built tree is distinct, as every &Value of the real tree is.            *)
(***************************************************************************)
Leaf(tag) == [tag |-> tag, subs |-> EmptyMap]
Node(tag, subs) == [tag |-> tag, subs |-> subs]

\* the five fields of a stats aggregation
StatsFive == {"count", "min", "max", "avg", "sum"}

\* the eight scalar fields of an extended_stats aggregation, in the order
\* next() looks them up
StatsFields ==
    << "count", "min", "max", "avg", "sum", "sum_of_squares", "variance", "std_deviation" >>

StatsAll == {StatsFields[i] : i \in 1..Len(StatsFields)}

\* a metric object holding the named scalar fields
MetricObj(names, of, id) == Obj([s \in names |-> Scalar(of \o "." \o s, id)])

PlainFields(id) == [key |-> Scalar("key", id), doc_count |-> Scalar("doc_count", id)]

\* the fields of a bucket of the given tag, nested bucket aggregations aside
BucketFields(tag, id) ==
    CASE tag = "plain"    -> PlainFields(id)
      [] tag = "empty"    -> EmptyMap
      [] tag = "metric"   -> PlainFields(id) @@ [m |-> MetricObj({"value"}, "m", id)]
      [] tag = "stats"    -> PlainFields(id) @@ [st |-> MetricObj(StatsFive, "st", id)]
      [] tag = "partial"  -> PlainFields(id) @@ [st |-> MetricObj({"min", "variance"}, "st", id)]
      [] tag = "bounds"   ->
            PlainFields(id) @@
            [st |-> Obj([std_deviation_bounds |-> MetricObj({"upper", "lower"}, "st.bounds", id)])]
      [] tag = "xstats"   ->
            PlainFields(id) @@
            [xst |-> Obj(MetricObj(StatsAll, "xst", id).o @@
                         [std_deviation_bounds |->
                             MetricObj({"upper", "lower"}, "xst.bounds", id)])]
      [] tag = "nolower"  ->
            PlainFields(id) @@
            [st |-> Obj([std_deviation_bounds |-> MetricObj({"upper"}, "st.bounds", id)])]
      [] tag = "keyobj"   ->
            [key |-> MetricObj({"count"}, "key", id), doc_count |-> Scalar("doc_count", id)]
      [] tag = "keyvalue" ->
            [key |-> MetricObj({"value"}, "key", id), doc_count |-> Scalar("doc_count", id)]
      [] tag = "countobj" ->
            [key |-> Scalar("key", id), doc_count |-> MetricObj({"sum"}, "doc_count", id)]
      [] tag = "badchild" ->
            PlainFields(id) @@ [bad |-> Obj([buckets |-> Scalar("bad.buckets", id)])]

RECURSIVE BuildBucket(_, _)
\* the bucket of shape sh at path id; shape "scalar" is an entry that is no object
BuildBucket(sh, id) ==
    IF sh.tag = "scalar"
    THEN Scalar("entry", id)
    ELSE Obj(BucketFields(sh.tag, id) @@
             [nm \in DOMAIN sh.subs |->
                 Obj([buckets |->
                        Arr([i \in 1..Len(sh.subs[nm]) |->
                               BuildBucket(sh.subs[nm][i], id \o << nm, i >>)])])])

\* what a root shape holds beside its bucket aggregations
RootExtra(extra) ==
    CASE extra = "none"       -> EmptyMap
      [] extra = "metric"     -> [M |-> MetricObj({"value"}, "M", << >>)]
      [] extra = "badbuckets" -> [M |-> Obj([buckets |-> Scalar("M.buckets", << >>)])]

\* the aggregations tree of a root shape
BuildRoot(rs) ==
    Obj(BuildBucket(Node("empty", rs.aggs), << >>).o @@ RootExtra(rs.extra))

SeqsOver(S, n) == UNION {[1..k -> S] : k \in 0..n}

\* k buckets of one tag
Uniform(tag, k) == [i \in 1..k |-> Leaf(tag)]

LeafTags ==
    {"plain", "empty", "metric", "stats", "partial", "bounds", "xstats", "nolower",
     "keyobj", "keyvalue", "countobj", "badchild", "scalar"}

\* one top-level bucket aggregation G whose buckets nest nothing
FlatShapes ==
    {[aggs |-> ("G" :> s), extra |-> "none"] :
        s \in SeqsOver({Leaf(t) : t \in LeafTags}, MaxBuckets)}

\* what a bucket of G nests in a two-level tree of naming nc: nothing, or k
\* buckets under a2, under sub, or under a2 with the rest under sub (the
\* buckets of a2 being plain ones in the naming "mixed")
NestedSubs(nc, itag) ==
    {EmptyMap} \cup
    {CASE nc = "a2"    -> ("a2" :> Uniform(itag, k))
       [] nc = "sub"   -> ("sub" :> Uniform(itag, k))
       [] nc = "both"  -> ("a2" :> Uniform(itag, k)) @@ ("sub" :> Uniform(itag, MaxBuckets - k))
       [] nc = "mixed" ->
            ("a2" :> Uniform("plain", k)) @@ ("sub" :> Uniform(itag, MaxBuckets - k)) :
     k \in 0..MaxBuckets}

\* G, whose buckets nest the bucket aggregations a2 and sub
NestedShapes ==
    UNION {{[aggs |-> ("G" :> s), extra |-> "none"] :
              s \in SeqsOver({Node(otag, subs) : subs \in NestedSubs(nc, itag)},
                             MaxBuckets)} :
           nc \in {"a2", "sub", "both", "mixed"},
           otag \in {"plain", "metric"}, itag \in {"plain", "metric"}}

\* G > g2 > sub, three levels deep
DeepShapes ==
    {[aggs |-> ("G" :> [i \in 1..k1 |->
                          Node("metric",
                               ("g2" :> [j \in 1..k2 |->
                                           Node("plain", ("sub" :> Uniform(t3, k3)))]))]),
      extra |-> "none"] :
        k1 \in 1..MaxBuckets, k2 \in 0..MaxBuckets, k3 \in 0..MaxBuckets,
        t3 \in {"plain", "metric"}}

\* the top-level bucket aggregations G and H side by side
MultiShapes ==
    {[aggs |-> ("G" :> Uniform(tg, kg)) @@ ("H" :> Uniform(th, kh)), extra |-> x] :
        tg \in {"plain", "metric"}, th \in {"plain", "metric", "stats"},
        kg \in 0..MaxBuckets, kh \in 0..MaxBuckets,
        x \in {"none", "metric", "badbuckets"}}

\* no bucket aggregation at the top level
BareShapes == {[aggs |-> EmptyMap, extra |-> x] : x \in {"none", "metric", "badbuckets"}}

Shapes == FlatShapes \cup NestedShapes \cup DeepShapes \cup MultiShapes \cup BareShapes

\* the values of the "aggregations" section
Trees ==
    {BuildRoot(rs) : rs \in Shapes} \cup {Scalar("aggregations", << >>), Arr(<< >>)}

\* the deserialized responses: the "aggregations" section is optional
Responses == {[aggregations |-> None]} \cup {[aggregations |-> Some(t)] : t \in Trees}

(***************************************************************************)
(* The state.  response is the deserialized ResponseOf; current_row and    *)
(* iter_stack are the fields of AggregationIterator (current_row_finished  *)
(* is written once and never read, aggregations is response.aggregations); *)
(* n_obj (the bucket n, found at place n_at), active_name, has_buckets and *)
(* fields (the keys the for loop has still to visit) are the locals of     *)
(* next() while it walks one bucket; heap holds the BTreeMaps that are alive, the *)
(* accumulator's and the clones handed out; rows are the clones the caller *)
(* has received, leafs the places of the buckets they were yielded for,    *)
(* last the kind of the latest return value of next(); panic the message   *)
(* of the panic that ended the program.                                    *)
(***************************************************************************)
VARIABLES response, pc, panic, current_row, iter_stack, heap,
          n_obj, n_at, active_name, has_buckets, fields, rows, leafs, last

vars == << response, pc, panic, current_row, iter_stack, heap,
           n_obj, n_at, active_name, has_buckets, fields, rows, leafs, last >>

locals == << n_obj, n_at, active_name, has_buckets, fields >>
caller == << rows, leafs, last >>

\* a frame of iter_stack: (Option<&String>, Iter<Value>); the slice iterator is
\* the slice arr, the number pos of entries already taken, and the place `at`
\* of the bucket holding the array
Frame(name, at, arr) == [name |-> Some(name), at |-> at, arr |-> arr, pos |-> 0]

\* slice::Iter::next: the entry taken, if any
IterNext(f) == IF f.pos < Len(f.arr) THEN Some(f.arr[f.pos + 1]) ELSE None

\* IterAdvance that leaves the cursor where it was
IterStuck(f) == f

\* slice::Iter after next()
IterAdvance(f) == IF f.pos < Len(f.arr) THEN [f EXCEPT !.pos = @ + 1] ELSE f

\* the place of the entry a frame has taken last
PlaceOf(f) == f.at \o << f.name.v, f.pos >>

\* child.as_object().and_then(|c| c.get("buckets")).and_then(Value::as_array)
BucketsArray(child) ==
    IF as_object(child).some /\ get(child.o, "buckets").some
    THEN as_array(child.o["buckets"])
    ELSE None

\* TopKeys that keeps the first such key only
TopKeysFirst(o) ==
    LET ks == SelectSeq(SortedKeys(o), LAMBDA k : BucketsArray(o[k]).some)
    IN  IF ks = << >> THEN ks ELSE << Head(ks) >>

\* keys of the root object whose value holds a "buckets" array, in iteration order
TopKeys(o) == SelectSeq(SortedKeys(o), LAMBDA k : BucketsArray(o[k]).some)

\* the address of a fresh BTreeMap
NewId(h) == CHOOSE i \in 1..(Cardinality(DOMAIN h) + 1) :
                /\ i \notin DOMAIN h
                /\ \A j \in 1..(i - 1) : j \in DOMAIN h

\* Drop that frees nothing
DropNothing(h, id) == h

\* drop of the BTreeMap at id
Drop(h, id) == [i \in DOMAIN h \ {id} |-> h[i]]

Init ==
    /\ response \in Responses
    /\ pc = "response"
    /\ panic = None
    /\ current_row = None
    /\ iter_stack = << >>
    /\ heap = EmptyMap
    /\ n_obj = EmptyMap
    /\ n_at = << >>
    /\ active_name = ""
    /\ has_buckets = FALSE
    /\ fields = << >>
    /\ rows = << >>
    /\ leafs = << >>
    /\ last = "NotCalled"

\* a panic ends the program
Panic(msg) ==
    /\ pc' = "panic"
    /\ panic' = Some(msg)
    /\ UNCHANGED << response, current_row, iter_stack, heap, locals, caller >>

\* ResponseOf::aggs: self.aggregations.as_ref().unwrap()
Aggs ==
    /\ pc = "response"
    /\ IF response.aggregations.some
       THEN /\ pc' = "aggs"
            /\ UNCHANGED << response, panic, current_row, iter_stack, heap, locals, caller >>
       ELSE Panic("unwrap on None: aggregations")

\* the frames AggregationIterator::new collects from the root object o
NewStack(o) ==
    LET ks == TopKeys(o)
    IN  [j \in 1..Len(ks) |-> Frame(ks[j], << >>, BucketsArray(o[ks[j]]).v)]

\* IntoIterator::into_iter, AggregationIterator::new
IntoIter ==
    /\ pc = "aggs"
    /\ LET o == as_object(response.aggregations.v)
       IN  IF o.some
           THEN /\ pc' = "iter"
                /\ current_row' = None
                /\ iter_stack' = NewStack(o.v)
                /\ UNCHANGED << response, panic, heap, locals, caller >>
           ELSE Panic("Not implemented, we only cater for bucket objects")

\* insert_value with the two parts of the column name swapped
insert_value_swapped(fieldname, json_object, keyname, rowdata) ==
    IF get(json_object, fieldname).some
    THEN insert(rowdata, fieldname \o "_" \o keyname, json_object[fieldname])
    ELSE rowdata

\* insert_value: the column <keyname>_<fieldname>, when the object has the field
insert_value(fieldname, json_object, keyname, rowdata) ==
    IF get(json_object, fieldname).some
    THEN insert(rowdata, keyname \o "_" \o fieldname, json_object[fieldname])
    ELSE rowdata

RECURSIVE InsertStatsFrom(_, _, _, _)
\* the insert_value calls of next() from the i-th on
InsertStatsFrom(i, c, key, row) ==
    IF i > Len(StatsFields)
    THEN row
    ELSE InsertStatsFrom(i + 1, c, key, insert_value(StatsFields[i], c, key, row))

\* the eight insert_value calls for the stats fields
InsertStats(c, key, row) == InsertStatsFrom(1, c, key, row)

\* whether the std_deviation_bounds block is entered
HasBounds(c) ==
    /\ "std_deviation_bounds" \in DOMAIN c
    /\ as_object(c["std_deviation_bounds"]).some

\* u.unwrap() or l.unwrap() on a bounds object without "upper" or "lower"
BoundsPanics(c) ==
    /\ HasBounds(c)
    /\ ~ ({"upper", "lower"} \subseteq DOMAIN c["std_deviation_bounds"].o)

\* the two columns of a std_deviation_bounds object
InsertBounds(c, key, row) ==
    IF HasBounds(c) /\ ~BoundsPanics(c)
    THEN LET child_values == c["std_deviation_bounds"].o
         IN  insert(insert(row, key \o "_std_deviation_bounds_upper", child_values["upper"]),
                    key \o "_std_deviation_bounds_lower", child_values["lower"])
    ELSE row

\* the column of a metric with a "value" field
InsertMetric(key, v, row) == insert(row, key, v)

\* InsertKey with the doc_count test misspelt: no doc_count column
InsertKeyNoCount(key, value, aname, row) ==
    IF key = "key"
    THEN insert(row, aname, value)
    ELSE IF key = "count"
         THEN insert(row, aname \o "_doc_count", value)
         ELSE row

\* the group-key and doc_count columns, named after the active frame
InsertKey(key, value, aname, row) ==
    IF key = "key"
    THEN insert(row, aname, value)
    ELSE IF key = "doc_count"
         THEN insert(row, aname \o "_doc_count", value)
         ELSE row

\* PushChild with the frame put below the stack instead of on top of it
PushChildBelow(stack, key, at, buckets) ==
    IF as_array(buckets).some
    THEN << Frame(key, at, buckets.a) >> \o stack
    ELSE stack

\* PushChild that pushes the frame of the child twice
PushChildTwice(stack, key, at, buckets) ==
    IF as_array(buckets).some
    THEN Append(Append(stack, Frame(key, at, buckets.a)), Frame(key, at, buckets.a))
    ELSE stack

\* what a "buckets" field of a child pushes: a frame when it is an array
PushChild(stack, key, at, buckets) ==
    IF as_array(buckets).some
    THEN Append(stack, Frame(key, at, buckets.a))
    ELSE stack

\* ProcessField that reads the name of the frame on top of the stack when it
\* writes the group-key and doc_count columns
ProcessFieldTopName(key, value, aname, at, row, stack, hb) ==
    LET c == as_object(value)
        top == stack[Len(stack)].name.v
    IN  IF c.some /\ get(c.v, "buckets").some
        THEN [row |-> row, stack |-> PushChild(stack, key, at, c.v["buckets"]),
              hb |-> TRUE, panicked |-> FALSE]
        ELSE IF c.some /\ get(c.v, "value").some
        THEN [row |-> InsertMetric(key, c.v["value"], row), stack |-> stack,
              hb |-> hb, panicked |-> FALSE]
        ELSE IF c.some
        THEN [row |-> InsertKey(key, value, top,
                                InsertBounds(c.v, key, InsertStats(c.v, key, row))),
              stack |-> stack, hb |-> hb, panicked |-> BoundsPanics(c.v)]
        ELSE [row |-> InsertKey(key, value, top, row), stack |-> stack,
              hb |-> hb, panicked |-> FALSE]

\* ProcessField with a `continue` at the end of the block for objects: the
\* name of a field whose value is an object is never looked at
ProcessFieldContinue(key, value, aname, at, row, stack, hb) ==
    LET c == as_object(value)
    IN  IF c.some /\ get(c.v, "buckets").some
        THEN [row |-> row, stack |-> PushChild(stack, key, at, c.v["buckets"]),
              hb |-> TRUE, panicked |-> FALSE]
        ELSE IF c.some /\ get(c.v, "value").some
        THEN [row |-> InsertMetric(key, c.v["value"], row), stack |-> stack,
              hb |-> hb, panicked |-> FALSE]
        ELSE IF c.some
        THEN [row |-> InsertBounds(c.v, key, InsertStats(c.v, key, row)),
              stack |-> stack, hb |-> hb, panicked |-> BoundsPanics(c.v)]
        ELSE [row |-> InsertKey(key, value, aname, row), stack |-> stack,
              hb |-> hb, panicked |-> FALSE]

\* The body of the for loop of next() for one field (key, value) of the bucket
\* at place `at`: the row, the stack and has_buckets after it, and whether it
\* panicked.
ProcessField(key, value, aname, at, row, stack, hb) ==
    LET c == as_object(value)
    IN  IF c.some /\ get(c.v, "buckets").some
        THEN [row |-> row, stack |-> PushChild(stack, key, at, c.v["buckets"]),
              hb |-> TRUE, panicked |-> FALSE]
        ELSE IF c.some /\ get(c.v, "value").some
        THEN [row |-> InsertMetric(key, c.v["value"], row), stack |-> stack,
              hb |-> hb, panicked |-> FALSE]
        ELSE IF c.some
        THEN [row |-> InsertKey(key, value, aname,
                                InsertBounds(c.v, key, InsertStats(c.v, key, row))),
              stack |-> stack, hb |-> hb, panicked |-> BoundsPanics(c.v)]
        ELSE [row |-> InsertKey(key, value, aname, row), stack |-> stack,
              hb |-> hb, panicked |-> FALSE]

\* CloneRow that hands out the accumulator itself
ShareRow(h, id) == [heap |-> h, id |-> id]

\* x.clone(): a BTreeMap of its own, equal to the accumulator
CloneRow(h, id) ==
    LET nid == NewId(h) IN [heap |-> (nid :> h[id]) @@ h, id |-> nid]

\* self.current_row = None, when the stack is empty
DoneRow(cr) == None

\* Yields that ignores has_buckets: a row for every bucket
YieldsAlways(hb) == TRUE

\* whether next() breaks out of its loop after a bucket
Yields(hb) == ~hb

\* the match that ends next(): a clone of the accumulator, or None
Return(cr, h, leaf) ==
    /\ pc' = "iter"
    /\ IF cr.some
       THEN LET c == CloneRow(h, cr.v)
            IN  /\ heap' = c.heap
                /\ rows' = Append(rows, c.id)
                /\ leafs' = Append(leafs, leaf)
                /\ last' = "Some"
       ELSE /\ heap' = h
            /\ last' = "None"
            /\ UNCHANGED << rows, leafs >>

\* NextCall that starts every call with an empty accumulator
NextCallFresh ==
    /\ pc = "iter"
    /\ pc' = "loop"
    /\ IF current_row.some
       THEN /\ heap' = [heap EXCEPT ![current_row.v] = EmptyMap]
            /\ UNCHANGED current_row
       ELSE LET id == NewId(heap)
            IN  /\ current_row' = Some(id)
                /\ heap' = (id :> EmptyMap) @@ heap
    /\ UNCHANGED << response, panic, iter_stack, locals, caller >>

\* next() is called: a new accumulator when there is none
NextCall ==
    /\ pc = "iter"
    /\ pc' = "loop"
    /\ IF current_row.some
       THEN UNCHANGED << current_row, heap >>
       ELSE LET id == NewId(heap)
            IN  /\ current_row' = Some(id)
                /\ heap' = (id :> EmptyMap) @@ heap
    /\ UNCHANGED << response, panic, iter_stack, locals, caller >>

\* the stack is empty: the accumulator is dropped and next() returns None
LoopDone ==
    /\ pc = "loop"
    /\ iter_stack = << >>
    /\ current_row' = DoneRow(current_row)
    /\ Return(current_row',
              IF current_row'.some THEN heap ELSE Drop(heap, current_row.v),
              << >>)
    /\ UNCHANGED << response, panic, iter_stack, locals >>

\* LoopExit that also empties the accumulator
LoopExitClearing ==
    /\ pc = "loop"
    /\ iter_stack # << >>
    /\ ~IterNext(iter_stack[Len(iter_stack)]).some
    /\ iter_stack' = SubSeq(iter_stack, 1, Len(iter_stack) - 1)
    /\ heap' = [heap EXCEPT ![current_row.v] = EmptyMap]
    /\ UNCHANGED << response, pc, panic, current_row, locals, caller >>

\* the cursor of the top frame is exhausted: the frame is popped
LoopExit ==
    /\ pc = "loop"
    /\ iter_stack # << >>
    /\ ~IterNext(iter_stack[Len(iter_stack)]).some
    /\ iter_stack' = SubSeq(iter_stack, 1, Len(iter_stack) - 1)
    /\ UNCHANGED << response, pc, panic, current_row, heap, locals, caller >>

\* the cursor of the top frame yields the entry n: the for loop over its
\* fields starts, or n is no object and expect() panics
LoopBucket ==
    /\ pc = "loop"
    /\ iter_stack # << >>
    /\ LET i == iter_stack[Len(iter_stack)]
           n == IterNext(i)
       IN  /\ n.some
           /\ IF as_object(n.v).some
              THEN /\ iter_stack' = [iter_stack EXCEPT ![Len(iter_stack)] = IterAdvance(i)]
                   /\ active_name' = i.name.v
                   /\ has_buckets' = FALSE
                   /\ n_obj' = n.v.o
                   /\ n_at' = PlaceOf(IterAdvance(i))
                   /\ fields' = SortedKeys(n.v.o)
                   /\ pc' = "fields"
                   /\ UNCHANGED << response, panic, current_row, heap, caller >>
              ELSE Panic("Shouldn't get here!")

\* one pass of the for loop over the fields of n
Field ==
    /\ pc = "fields"
    /\ fields # << >>
    /\ LET key == Head(fields)
           r == ProcessField(key, n_obj[key], active_name, n_at,
                             heap[current_row.v], iter_stack, has_buckets)
       IN  IF r.panicked
           THEN Panic("unwrap on None: std_deviation_bounds")
           ELSE /\ heap' = [heap EXCEPT ![current_row.v] = r.row]
                /\ iter_stack' = r.stack
                /\ has_buckets' = r.hb
                /\ fields' = Tail(fields)
                /\ UNCHANGED << response, pc, panic, current_row, n_obj, n_at,
                                active_name, caller >>

\* the for loop is over: next() returns the row of a bucket that nests
\* nothing, and loops again for one that does
EndBucket ==
    /\ pc = "fields"
    /\ fields = << >>
    /\ IF Yields(has_buckets)
       THEN Return(current_row, heap, n_at)
       ELSE /\ pc' = "loop"
            /\ UNCHANGED << heap, caller >>
    /\ UNCHANGED << response, panic, current_row, iter_stack, locals >>

Next ==
    \/ Aggs
    \/ IntoIter
    \/ NextCall
    \/ LoopDone
    \/ LoopExit
    \/ LoopBucket
    \/ Field
    \/ EndBucket

Spec == Init /\ [][Next]_vars

\* The program runs on: a step that can be taken is taken, the caller's next
\* call of next() included (the caller drains the iterator, as a for loop or
\* collect() does).
FairSpec == Spec /\ WF_vars(Next)

(***************************************************************************)
(* What the claims speak of.                                               *)
(***************************************************************************)
\* the aggregations tree, when the response has one
Tree == response.aggregations.v

\* the tree is there and its root is an object: an iterator can be built
HasTree == response.aggregations.some /\ as_object(response.aggregations.v).some

\* the i-th row the caller has received, as the caller reads it now
RowAt(i) == heap[rows[i]]

IsScalar(v) == v.t = "scalar"

\* the top-level aggregations that hold a "buckets" array
TopBucketAggs == {k \in DOMAIN Tree.o : BucketsArray(Tree.o[k]).some}

\* the fields of a bucket object that are objects with a "buckets" field
NestingFields(b) == {k \in DOMAIN b : as_object(b[k]).some /\ "buckets" \in DOMAIN b[k].o}

\* a bucket object with a scalar key and a doc_count
HasKeyAndCount(b) ==
    /\ b.t = "object"
    /\ {"key", "doc_count"} \subseteq DOMAIN b.o
    /\ IsScalar(b.o["key"])
    /\ IsScalar(b.o["doc_count"])

RECURSIVE BucketAt(_, _)
\* the bucket object at place p below the object o
BucketAt(o, p) ==
    IF p = << >>
    THEN o
    ELSE BucketAt(o[p[1]].o["buckets"].a[p[2]].o, SubSeq(p, 3, Len(p)))

\* the two columns of a bucket b of the aggregation G
KeyColumns(G, b) == (G :> b["key"]) @@ ((G \o "_doc_count") :> b["doc_count"])

\* G is the one top-level bucket aggregation and its buckets carry only a
\* scalar key and a doc_count
FlatPlain(G) ==
    /\ HasTree
    /\ TopBucketAggs = {G}
    /\ \A j \in 1..Len(BucketsArray(Tree.o[G]).v) :
          LET b == BucketsArray(Tree.o[G]).v[j]
          IN  HasKeyAndCount(b) /\ DOMAIN b.o = {"key", "doc_count"}

\* C1: for one top-level bucket aggregation G whose n buckets carry only a
\* scalar key and a doc_count, the calls of next() yield n rows in array
\* order, the i-th being exactly {G: key_i, G_doc_count: doc_count_i}, and
\* next() returns None only after the n-th row; nothing panics.
C1_FlatRows ==
    \A G \in {"G", "H", "M"} :
        FlatPlain(G) =>
            LET arr == BucketsArray(Tree.o[G]).v
            IN  /\ pc # "panic"
                /\ Len(rows) <= Len(arr)
                /\ \A i \in 1..Len(rows) : RowAt(i) = KeyColumns(G, arr[i].o)
                /\ (last = "None" => Len(rows) = Len(arr))
                /\ (last = "NotCalled" => rows = << >>)

\* a flat tree of MaxBuckets buckets has been read to exhaustion
C1_Witness ==
    /\ FlatPlain("G")
    /\ Len(BucketsArray(Tree.o["G"]).v) >= 2
    /\ last = "None"
    /\ Len(rows) = Len(BucketsArray(Tree.o["G"]).v)

\* a metric: an object with a "value" field and no "buckets" field
IsValueMetric(v) ==
    /\ as_object(v).some
    /\ "buckets" \notin DOMAIN v.o
    /\ "value" \in DOMAIN v.o

\* the fields of bucket b other than those named in `known` are metrics
\* whose columns are none of `cols`
OnlyMetricsBeside(b, known, cols) ==
    \A k \in DOMAIN b \ known : IsValueMetric(b[k]) /\ k \notin cols

\* G1 is the one top-level bucket aggregation, each of its buckets nests the
\* bucket aggregation G2 and no other, with at least one bucket, and the
\* buckets of G2 nest nothing; the four columns of G1 and G2 are four names
\* and no metric of a bucket is named as one of them
TwoLevel(G1, G2) ==
    LET cols == {G1, G1 \o "_doc_count", G2, G2 \o "_doc_count"}
    IN  /\ HasTree
        /\ TopBucketAggs = {G1}
        /\ G2 \notin {"key", "doc_count"}
        /\ Cardinality(cols) = 4
        /\ \A a \in 1..Len(BucketsArray(Tree.o[G1]).v) :
              LET ob == BucketsArray(Tree.o[G1]).v[a]
              IN  /\ HasKeyAndCount(ob)
                  /\ NestingFields(ob.o) = {G2}
                  /\ OnlyMetricsBeside(ob.o, {"key", "doc_count", G2}, cols)
                  /\ BucketsArray(ob.o[G2]).some
                  /\ BucketsArray(ob.o[G2]).v # << >>
                  /\ \A b \in 1..Len(BucketsArray(ob.o[G2]).v) :
                        LET ib == BucketsArray(ob.o[G2]).v[b]
                        IN  /\ HasKeyAndCount(ib)
                            /\ OnlyMetricsBeside(ib.o, {"key", "doc_count"}, cols)

\* C2: in a two-level nesting every row holds the columns G1, G1_doc_count,
\* G2 and G2_doc_count: G1 and G1_doc_count are the key and doc_count of the
\* outer bucket the row was yielded under, the same for all rows of that
\* outer bucket, G2 and G2_doc_count those of the row's inner bucket.
C2_TwoLevelRows ==
    \A G1 \in {"G", "H"}, G2 \in {"a2", "g2", "sub", "m"} :
        TwoLevel(G1, G2) =>
            /\ pc # "panic"
            /\ \A i \in 1..Len(rows) :
                  /\ Len(leafs[i]) = 4
                  /\ leafs[i][1] = G1
                  /\ leafs[i][3] = G2
                  /\ LET ob == BucketAt(Tree.o, SubSeq(leafs[i], 1, 2))
                         ib == BucketAt(Tree.o, leafs[i])
                         r == RowAt(i)
                     IN  /\ {G1, G1 \o "_doc_count", G2, G2 \o "_doc_count"} \subseteq DOMAIN r
                         /\ r[G1] = ob["key"]
                         /\ r[G1 \o "_doc_count"] = ob["doc_count"]
                         /\ r[G2] = ib["key"]
                         /\ r[G2 \o "_doc_count"] = ib["doc_count"]

\* two rows of one outer bucket and a row of the next outer bucket have been
\* yielded, the nested aggregation being iterated before "key"
C2_Witness ==
    /\ TwoLevel("G", "a2")
    /\ Len(rows) >= 3
    /\ SubSeq(leafs[1], 1, 2) = SubSeq(leafs[2], 1, 2)
    /\ SubSeq(leafs[2], 1, 2) # SubSeq(leafs[3], 1, 2)

RECURSIVE WellFormedObj(_)
\* Every "buckets" field below the root or bucket object o is an array of
\* objects, and every std_deviation_bounds object has its upper and lower.
WellFormedObj(o) ==
    \A k \in DOMAIN o :
        as_object(o[k]).some =>
            /\ "buckets" \in DOMAIN o[k].o =>
                  /\ as_array(o[k].o["buckets"]).some
                  /\ \A j \in 1..Len(o[k].o["buckets"].a) :
                        /\ as_object(o[k].o["buckets"].a[j]).some
                        /\ WellFormedObj(o[k].o["buckets"].a[j].o)
            /\ ~BoundsPanics(o[k].o)

WellFormed == HasTree /\ WellFormedObj(Tree.o)

RECURSIVE LeafPlaces(_, _)
\* The places of the leaf buckets below the root or bucket object o at place
\* `at`: a bucket is a leaf when none of its fields is an object holding a
\* "buckets" array.
LeafPlaces(o, at) ==
    UNION {UNION {LET b == BucketsArray(o[k]).v[j].o
                      here == at \o << k, j >>
                  IN  IF \E f \in DOMAIN b : BucketsArray(b[f]).some
                      THEN LeafPlaces(b, here)
                      ELSE {here} :
                  j \in 1..Len(BucketsArray(o[k]).v)} :
           k \in {f \in DOMAIN o : BucketsArray(o[f]).some}}

\* places p and q part at position d
PartAt(p, q, d) ==
    /\ d <= Len(p)
    /\ d <= Len(q)
    /\ p[d] # q[d]
    /\ SubSeq(p, 1, d - 1) = SubSeq(q, 1, d - 1)

\* C3: over a well-formed tree the rows yielded are in one-to-one
\* correspondence with the leaf buckets: a row is yielded only for a leaf
\* bucket (and holds the key and doc_count of a leaf bucket that has no other
\* field), no leaf bucket yields two rows, at exhaustion
\* every leaf bucket has yielded its row, and two buckets of one "buckets"
\* array are visited, with all below them, in array order.
C3_LeafRows ==
    WellFormed =>
        /\ pc # "panic"
        /\ \A i \in 1..Len(rows) :
              /\ leafs[i] \in LeafPlaces(Tree.o, << >>)
              /\ LET b == BucketAt(Tree.o, leafs[i])
                     G == leafs[i][Len(leafs[i]) - 1]
                 IN  (DOMAIN b = {"key", "doc_count"} /\ HasKeyAndCount(Obj(b))) =>
                        /\ {G, G \o "_doc_count"} \subseteq DOMAIN RowAt(i)
                        /\ RowAt(i)[G] = b["key"]
                        /\ RowAt(i)[G \o "_doc_count"] = b["doc_count"]
        /\ \A i, j \in 1..Len(rows) :
              i < j =>
                 /\ leafs[i] # leafs[j]
                 /\ \A d \in 1..Len(leafs[i]) :
                       (d % 2 = 0 /\ PartAt(leafs[i], leafs[j], d)) =>
                           leafs[i][d] < leafs[j][d]
        /\ (last = "None" =>
               {leafs[i] : i \in 1..Len(rows)} = LeafPlaces(Tree.o, << >>))

\* a three-level tree with at least four leaf buckets has been read to exhaustion
C3_Witness ==
    /\ WellFormed
    /\ last = "None"
    /\ pc = "iter"
    /\ Len(rows) >= 4
    /\ \E i \in 1..Len(rows) : Len(leafs[i]) = 6

\* C4: once next() has returned None, every later call returns None: no
\* further row reaches the caller, the stack stays empty, nothing panics, and
\* between calls there is no accumulator: current_row is None and the only
\* maps alive are the rows of the caller.
C4_ExhaustionTerminal ==
    [][last = "None" =>
          /\ last' = "None"
          /\ rows' = rows
          /\ iter_stack' = << >>
          /\ pc' # "panic"
          /\ (pc' = "iter" =>
                 /\ current_row' = None
                 /\ DOMAIN heap' = {rows[i] : i \in 1..Len(rows)})]_vars

\* next() has been called again on an iterator that has yielded rows and
\* then returned None
C4_Witness ==
    /\ last = "None"
    /\ pc = "loop"
    /\ Len(rows) >= 2

\* C5: a response without an "aggregations" section gives no row and no
\* crash when its row view is asked for.
C5_NoAggregationsNoCrash ==
    ~response.aggregations.some => pc # "panic"

\* C6: an entry of a "buckets" array that is no object does not crash
\* next(): the call hands an error to the caller.
C6_MalformedEntryNoCrash ==
    pc = "panic" => panic # Some("Shouldn't get here!")

\* C7: an aggregations value whose root is no object does not crash the
\* construction of the iterator: the caller gets an error.
C7_RootShapeNoCrash ==
    (response.aggregations.some /\ ~as_object(response.aggregations.v).some) =>
        pc # "panic"

\* C8: a row the caller has received is a map of its own: no later step of
\* the iterator, the call that reaches exhaustion included, removes it or
\* changes its columns or their values.
C8_RowsAreSnapshots ==
    [][\A i \in 1..Len(rows) :
          /\ i <= Len(rows')
          /\ rows'[i] = rows[i]
          /\ rows[i] \in DOMAIN heap'
          /\ heap'[rows[i]] = heap[rows[i]]]_vars

\* rows that differ have been handed out and next() has then returned None
C8_Witness ==
    /\ last = "None"
    /\ Len(rows) >= 2
    /\ RowAt(1) # RowAt(2)

\* the bucket places on the way to the leaf place p, p included
PlacesTo(p) == {SubSeq(p, 1, d) : d \in {e \in 1..Len(p) : e % 2 = 0}}

\* C9: if a bucket B has a field m that is a metric with value v, every row
\* yielded for a leaf bucket at or below B holds column m = v, unless a
\* bucket deeper on the way to that leaf has a metric named m.
C9_MetricColumns ==
    HasTree =>
        \A i \in 1..Len(rows) :
            \A q \in PlacesTo(leafs[i]) :
                LET B == BucketAt(Tree.o, q)
                IN  \A m \in DOMAIN B :
                        (/\ IsValueMetric(B[m])
                         /\ \A r \in PlacesTo(leafs[i]) :
                               Len(r) > Len(q) =>
                                  LET D == BucketAt(Tree.o, r)
                                  IN  ~(m \in DOMAIN D /\ IsValueMetric(D[m])))
                        => /\ m \in DOMAIN RowAt(i)
                           /\ RowAt(i)[m] = B[m].o["value"]

\* column col is the same, or as absent, in row b as in row a
Untouched(col, a, b) ==
    /\ col \in DOMAIN b <=> col \in DOMAIN a
    /\ col \in DOMAIN a => b[col] = a[col]

\* C10: when the for loop of next() visits a field n whose value is an
\* object c without "buckets" and without "value": for each of the eight
\* stats fields, column n_<stat> holds c's field if c has it and is left as
\* it was if not; the columns n_std_deviation_bounds_upper and _lower hold
\* the upper and lower of c's std_deviation_bounds object if c has one and
\* are left as they were if not; and, n being neither "key" nor "doc_count",
\* no other column is added or changed.  (For a field named "key" or
\* "doc_count" the loop goes on to write the column named after the active
\* frame, which is left out here.)
C10_StatsColumns ==
    [][(pc = "fields" /\ fields # << >> /\ pc' = "fields") =>
          LET n == Head(fields)
              c == n_obj[n]
              a == heap[current_row.v]
              b == heap'[current_row.v]
              up == n \o "_std_deviation_bounds_upper"
              lo == n \o "_std_deviation_bounds_lower"
              sdb == "std_deviation_bounds"
              keycols == IF n = "key"
                         THEN {active_name}
                         ELSE IF n = "doc_count" THEN {active_name \o "_doc_count"} ELSE {}
          IN  (as_object(c).some /\ "buckets" \notin DOMAIN c.o /\ "value" \notin DOMAIN c.o) =>
                 /\ \A st \in StatsAll :
                       (n \o "_" \o st) \notin keycols =>
                          IF st \in DOMAIN c.o
                          THEN (n \o "_" \o st) \in DOMAIN b /\ b[n \o "_" \o st] = c.o[st]
                          ELSE Untouched(n \o "_" \o st, a, b)
                 /\ IF sdb \in DOMAIN c.o /\ c.o[sdb].t = "object"
                    THEN /\ {up, lo} \subseteq DOMAIN b
                         /\ up \notin keycols => b[up] = c.o[sdb].o["upper"]
                         /\ lo \notin keycols => b[lo] = c.o[sdb].o["lower"]
                    ELSE /\ up \notin keycols => Untouched(up, a, b)
                         /\ lo \notin keycols => Untouched(lo, a, b)
                 /\ n \notin {"key", "doc_count"} =>
                       \A col \in (DOMAIN a \cup DOMAIN b) \
                                  ({n \o "_" \o st : st \in StatsAll} \cup {up, lo}) :
                           Untouched(col, a, b)]_vars

\* one row holds the five columns of a stats object and no other stats column,
\* and a row holds the two columns of a std_deviation_bounds object
C10_Witness ==
    \E i, j \in 1..Len(rows) :
        /\ {s \in StatsAll : ("st_" \o s) \in DOMAIN RowAt(i)} = StatsFive
        /\ {"xst_std_deviation_bounds_upper", "xst_std_deviation_bounds_lower"}
              \subseteq DOMAIN RowAt(j)

\* the names a column written for the field or aggregation k can have
ColumnsOf(k) ==
    {k, k \o "_doc_count", k \o "_std_deviation_bounds_upper",
     k \o "_std_deviation_bounds_lower"} \cup {k \o "_" \o st : st \in StatsAll}

\* C11: construction leaves one frame, its cursor at the start, for each
\* root key whose value is an object holding a "buckets" array, and none for
\* another root key; through the whole traversal no frame over the root, no
\* row, no column name and no column value comes from a root key without a
\* "buckets" array, and a tree with only such keys yields no row.
C11_TopLevelFilter ==
    HasTree =>
        /\ (pc = "iter" /\ last = "NotCalled") =>
              /\ Len(iter_stack) = Cardinality(TopBucketAggs)
              /\ \A k \in TopBucketAggs :
                    \E j \in 1..Len(iter_stack) :
                        iter_stack[j] = Frame(k, << >>, Tree.o[k].o["buckets"].a)
        /\ \A j \in 1..Len(iter_stack) :
              iter_stack[j].at = << >> => iter_stack[j].name.v \in TopBucketAggs
        /\ \A i \in 1..Len(rows) :
              /\ leafs[i][1] \in TopBucketAggs
              /\ \A k \in DOMAIN Tree.o \ TopBucketAggs :
                    DOMAIN RowAt(i) \cap ColumnsOf(k) = {}
              /\ \A col \in DOMAIN RowAt(i) :
                    RowAt(i)[col].t = "scalar" => RowAt(i)[col].id # << >>
        /\ TopBucketAggs = {} => (rows = << >> /\ pc # "panic")

\* a tree with two bucket aggregations and a bare metric at the top level has
\* been read to exhaustion
C11_Witness ==
    /\ HasTree
    /\ TopBucketAggs = {"G", "H"}
    /\ "M" \in DOMAIN Tree.o
    /\ IsValueMetric(Tree.o["M"])
    /\ last = "None"
    /\ Len(rows) >= 2

\* the entries the cursors of the stack have still to take
Pending(stack) ==
    IF stack = << >> THEN 0
    ELSE LET f == stack[Len(stack)] IN Len(f.arr) - f.pos

\* C12: over a well-formed tree every pass of the loop of next() that finds
\* a frame either advances the cursor of the top frame by one entry or pops
\* the top frame, leaving the frames below as they were; every call of
\* next() returns; and the calls reach exhaustion: next() returns None with
\* the stack empty.
C12_Terminates ==
    /\ [][(WellFormed /\ pc = "loop" /\ iter_stack # << >>) =>
             LET top == Len(iter_stack)
             IN  /\ SubSeq(iter_stack', 1, top - 1) = SubSeq(iter_stack, 1, top - 1)
                 /\ \/ /\ Len(iter_stack') = top
                       /\ iter_stack'[top] = [iter_stack[top] EXCEPT !.pos = @ + 1]
                       /\ iter_stack'[top].pos <= Len(iter_stack'[top].arr)
                    \/ /\ Len(iter_stack') = top - 1
                       /\ Pending(iter_stack) = 0]_vars
    /\ [](WellFormed /\ pc \in {"loop", "fields"} => <>(pc = "iter"))
    /\ (WellFormed ~> (pc = "iter" /\ last = "None" /\ iter_stack = << >>))

\* a tree whose buckets nest two aggregations has been read to exhaustion,
\* the last call having popped the frames left on the stack
C12_Witness ==
    /\ WellFormed
    /\ pc = "iter"
    /\ last = "None"
    /\ iter_stack = << >>
    /\ \E i, j \in 1..Len(rows) :
          /\ Len(leafs[i]) = 4
          /\ Len(leafs[j]) = 4
          /\ leafs[i][3] # leafs[j][3]

\* value v is taken from the bucket object b at place `at`: a field of b, or
\* a scalar inside a field of b
TakenFrom(v, b, at) ==
    \/ \E k \in DOMAIN b : v = b[k]
    \/ v.t = "scalar" /\ v.id = at

\* the depth of the bucket a scalar was taken from
DepthOf(v) == Len(v.id) \div 2

\* Column col of the accumulator lives through one step of the iterator: it
\* stays, and its value changes only while a bucket is processed, to a value
\* of that bucket, the bucket being at a depth that `mayWrite` allows for the
\* value replaced.
Carried(col, mayWrite(_, _)) ==
    LET a == heap[current_row.v]
        b == heap'[current_row.v]
    IN  /\ col \in DOMAIN b
        /\ b[col] # a[col] =>
              /\ pc = "fields"
              /\ TakenFrom(b[col], n_obj, n_at)
              /\ mayWrite(a[col], n_at)

\* a row handed out in this step is the accumulator as it is
YieldsAccumulator ==
    Len(rows') > Len(rows) =>
        /\ Len(rows') = Len(rows) + 1
        /\ current_row' = current_row
        /\ heap'[rows'[Len(rows')]] = heap[current_row.v]

SameOrShallower(old, at) == old.t = "scalar" => Len(at) \div 2 <= DepthOf(old)

AnyDepth(old, at) == TRUE

\* C13 as stated: a column written while a bucket at depth d was processed
\* stays in the accumulator, and so in every row yielded, with that value
\* until a bucket at depth d or shallower writes it again; a deeper bucket
\* never changes it.
C13_CarryOver ==
    [][(current_row.some /\ current_row' = current_row) =>
          /\ \A col \in DOMAIN heap[current_row.v] : Carried(col, SameOrShallower)
          /\ YieldsAccumulator]_vars

\* C13, amended: a column written while a bucket was processed stays in the
\* accumulator, and so in every row yielded, with that value until a bucket
\* processed later, at whatever depth, writes it again.
C13_CarryOverAnyDepth ==
    [][(current_row.some /\ current_row' = current_row) =>
          /\ \A col \in DOMAIN heap[current_row.v] : Carried(col, AnyDepth)
          /\ YieldsAccumulator]_vars

\* a row of a nested bucket holds that bucket's metric m in place of the
\* metric m of the bucket above it, and the next row still holds a column of
\* the row before
C13_Witness ==
    \E j \in 1..Len(rows) :
        /\ j > 1
        /\ Len(leafs[j]) = 4
        /\ "m" \in DOMAIN BucketAt(Tree.o, SubSeq(leafs[j], 1, 2))
        /\ "m" \in DOMAIN RowAt(j)
        /\ RowAt(j)["m"].id = leafs[j]
        /\ \E col \in DOMAIN RowAt(j - 1) :
              col \in DOMAIN RowAt(j) /\ RowAt(j)[col] = RowAt(j - 1)[col]

\* the nesting depth of the "buckets" array the cursor of frame f walks: 1 for
\* an array of a top-level aggregation
FrameDepth(f) == Len(f.at) \div 2 + 1

\* the traversal depth: the depth of the top frame, 0 when there is none
TraversalDepth ==
    IF iter_stack = << >> THEN 0 ELSE FrameDepth(iter_stack[Len(iter_stack)])

RECURSIVE SingleChain(_)
\* neither the root or bucket object o nor a bucket below it holds more than
\* one bucket aggregation
SingleChain(o) ==
    /\ Cardinality({k \in DOMAIN o : BucketsArray(o[k]).some}) <= 1
    /\ \A k \in DOMAIN o :
          BucketsArray(o[k]).some =>
             \A j \in 1..Len(BucketsArray(o[k]).v) :
                 as_object(BucketsArray(o[k]).v[j]).some =>
                     SingleChain(BucketsArray(o[k]).v[j].o)

\* C14 as stated: in every state the number of frames on the stack is the
\* traversal depth, and no frame is deeper than the top frame.
C14_StackDepth ==
    /\ Len(iter_stack) = TraversalDepth
    /\ \A j \in 1..Len(iter_stack) : FrameDepth(iter_stack[j]) <= TraversalDepth

\* C14, amended: the number of frames on the stack is at least the traversal
\* depth, and is the traversal depth when no object of the tree holds more
\* than one bucket aggregation; the bottom frame walks a top-level array and
\* from a frame to the one above it the depth stays or grows by one, so the
\* top frame is a deepest one.
C14_StackDepthAtLeast ==
    /\ Len(iter_stack) >= TraversalDepth
    /\ (HasTree /\ SingleChain(Tree.o)) => Len(iter_stack) = TraversalDepth
    /\ iter_stack # << >> => FrameDepth(iter_stack[1]) = 1
    /\ \A j \in 1..(Len(iter_stack) - 1) :
          FrameDepth(iter_stack[j + 1]) - FrameDepth(iter_stack[j]) \in {0, 1}

\* the frames of two nested aggregations of one bucket lie on the frame of
\* the bucket's aggregation: three frames at traversal depth two
C14_Witness ==
    /\ Len(iter_stack) = 3
    /\ TraversalDepth = 2
    /\ iter_stack[2].name # iter_stack[3].name
    /\ iter_stack[2].at = iter_stack[3].at

\* the columns a step has added or changed in the accumulator
Written == {col \in DOMAIN heap'[current_row.v] :
               ~Untouched(col, heap[current_row.v], heap'[current_row.v])}

\* the stat columns of the object c held by field n
StatCols(n, c) == {n \o "_" \o st : st \in StatsAll \cap DOMAIN c}

\* the columns of the std_deviation_bounds object of c
BoundsCols(n, c) ==
    IF "std_deviation_bounds" \in DOMAIN c /\ c["std_deviation_bounds"].t = "object"
    THEN {n \o "_std_deviation_bounds_upper", n \o "_std_deviation_bounds_lower"}
    ELSE {}

\* the column the literal field names "key" and "doc_count" stand for
NameCols(n, aname) ==
    IF n = "key" THEN {aname}
    ELSE IF n = "doc_count" THEN {aname \o "_doc_count"} ELSE {}

\* the columns of field (n, v) under a chain in which the first match alone
\* writes: buckets, value, stat fields, std_deviation_bounds, "key",
\* "doc_count"
FirstMatchCols(n, v, aname) ==
    IF v.t = "object" /\ "buckets" \in DOMAIN v.o THEN {}
    ELSE IF v.t = "object" /\ "value" \in DOMAIN v.o THEN {n}
    ELSE IF v.t = "object" /\ StatCols(n, v.o) # {} THEN StatCols(n, v.o)
    ELSE IF v.t = "object" /\ BoundsCols(n, v.o) # {} THEN BoundsCols(n, v.o)
    ELSE NameCols(n, aname)

\* the columns of field (n, v) when the stat fields and the bounds are taken
\* together and the field name is looked at after them
FallThroughCols(n, v, aname) ==
    IF v.t = "object" /\ "buckets" \in DOMAIN v.o THEN {}
    ELSE IF v.t = "object" /\ "value" \in DOMAIN v.o THEN {n}
    ELSE IF v.t = "object"
    THEN StatCols(n, v.o) \cup BoundsCols(n, v.o) \cup NameCols(n, aname)
    ELSE NameCols(n, aname)

\* C15 as stated: each pass of the for loop writes the columns of the first
\* branch that matches the field and no other: an object with stat fields
\* gets no std_deviation_bounds column, and a field named "key" or
\* "doc_count" whose value matched an object branch gets no group-key or
\* doc_count column.
C15_FirstMatch ==
    [][(pc = "fields" /\ fields # << >> /\ pc' = "fields") =>
          Written = FirstMatchCols(Head(fields), n_obj[Head(fields)], active_name)]_vars

\* C15, amended: a field with "buckets" writes no column and one with
\* "value" its metric column only; any other object gets the columns of its
\* stat fields and, as well, those of its std_deviation_bounds object; and a
\* field named "key" or "doc_count" whose value is no object, or an object
\* with neither "buckets" nor "value", gets the group-key or doc_count
\* column, holding the field's value, besides.
C15_FallThrough ==
    [][(pc = "fields" /\ fields # << >> /\ pc' = "fields") =>
          LET n == Head(fields)
              v == n_obj[n]
          IN  /\ Written = FallThroughCols(n, v, active_name)
              /\ \A col \in NameCols(n, active_name) \cap Written :
                    heap'[current_row.v][col] = v]_vars

\* rows hold the stat columns of an object beside its bounds columns, and
\* the group-key column of a "key" that is an object with a stat field
C15_Witness ==
    \E i, j \in 1..Len(rows) :
        /\ {"xst_count", "xst_std_deviation_bounds_upper"} \subseteq DOMAIN RowAt(i)
        /\ {"G", "key_count"} \subseteq DOMAIN RowAt(j)
        /\ RowAt(j)["G"].t = "object"

\* C16: while a bucket is processed has_buckets is true exactly when a frame
\* has been pushed for that bucket, and once the iterator is exhausted every
\* bucket none of whose fields holds a "buckets" array, one with a child
\* whose "buckets" is no array included, has been yielded as a row.
C16_HasBucketsIffPushed ==
    /\ pc = "fields" =>
          (has_buckets <=> \E j \in 1..Len(iter_stack) : iter_stack[j].at = n_at)
    /\ (HasTree /\ last = "None") =>
          LeafPlaces(Tree.o, << >>) \subseteq {leafs[i] : i \in 1..Len(rows)}

\* rows i and i + 1 are the last row of one top-level aggregation and the
\* first row of the next one traversed
Crossing(i) ==
    /\ i \in 1..(Len(rows) - 1)
    /\ leafs[i][1] # leafs[i + 1][1]

\* C17: with several top-level bucket aggregations, every column of the last
\* row of the aggregation traversed earlier is in every row of the
\* aggregation traversed next, with the same value unless a bucket of that
\* aggregation has written the column.
C17_Contamination ==
    HasTree =>
        \A i \in 1..Len(rows) :
            Crossing(i) =>
                \A j \in (i + 1)..Len(rows) :
                    leafs[j][1] = leafs[i + 1][1] =>
                        \A col \in DOMAIN RowAt(i) :
                            /\ col \in DOMAIN RowAt(j)
                            /\ \/ RowAt(j)[col] = RowAt(i)[col]
                               \/ /\ RowAt(j)[col].t = "scalar"
                                  /\ RowAt(j)[col].id # << >>
                                  /\ RowAt(j)[col].id[1] = leafs[j][1]

\* the rows of G, traversed after H, hold the key of the last bucket of H,
\* and hold their own metric m in place of the m of that bucket
C17_Witness ==
    /\ HasTree
    /\ last = "None"
    /\ \E i \in 1..Len(rows) :
          /\ Crossing(i)
          /\ i + 2 <= Len(rows)
          /\ leafs[i][1] = "H"
          /\ leafs[i + 2][1] = "G"
          /\ RowAt(i + 2)["H"] = RowAt(i)["H"]
          /\ "m" \in DOMAIN RowAt(i)
          /\ RowAt(i + 2)["m"] # RowAt(i)["m"]

\* the aggregation whose "buckets" array holds the bucket being processed
ContainingAgg == n_at[Len(n_at) - 1]

\* C18: when next() visits the field "key" or "doc_count" of a bucket, the
\* value being a scalar, the one column written is the one named after the
\* aggregation whose array holds the bucket (<name> for "key",
\* <name>_doc_count for "doc_count") and it holds the field's value; no
\* column named after a nested aggregation of the bucket is written, also
\* when frames of nested aggregations lie on the stack by then.
C18_KeyColumnNames ==
    [][(pc = "fields" /\ fields # << >> /\ pc' = "fields"
        /\ Head(fields) \in {"key", "doc_count"} /\ IsScalar(n_obj[Head(fields)])) =>
          LET col == IF Head(fields) = "key"
                     THEN ContainingAgg
                     ELSE ContainingAgg \o "_doc_count"
          IN  /\ Written = {col}
              /\ heap'[current_row.v][col] = n_obj[Head(fields)]
              /\ \A k \in NestingFields(n_obj) :
                    /\ Untouched(k, heap[current_row.v], heap'[current_row.v])
                    /\ Untouched(k \o "_doc_count", heap[current_row.v],
                                 heap'[current_row.v])]_vars

\* the key and doc_count of a bucket of G have been written while the frame
\* of the bucket's nested aggregation a2 was on top of the stack
C18_Witness ==
    /\ pc = "fields"
    /\ fields = << >>
    /\ n_at = << "G", 1 >>
    /\ has_buckets
    /\ iter_stack[Len(iter_stack)].at = n_at
    /\ iter_stack[Len(iter_stack)].name.v = "a2"
    /\ heap[current_row.v]["G"] = n_obj["key"]
    /\ heap[current_row.v]["G_doc_count"] = n_obj["doc_count"]

\* C19: of two rows yielded by one iterator the later holds every column
\* name of the earlier; no step takes a column out of the accumulator, and
\* the accumulator is given up only when the stack is empty, at exhaustion.
C19_ColumnsOnlyGrow ==
    /\ [](\A i, j \in 1..Len(rows) : i < j => DOMAIN RowAt(i) \subseteq DOMAIN RowAt(j))
    /\ [][current_row.some =>
             IF current_row' = current_row
             THEN DOMAIN heap[current_row.v] \subseteq DOMAIN heap'[current_row.v]
             ELSE iter_stack = << >> /\ last' = "None"]_vars

\* the second row of a flat aggregation holds a column that its bucket does
\* not have, kept from the first bucket
C19_Witness ==
    /\ Len(rows) >= 2
    /\ Len(leafs[2]) = 2
    /\ \E col \in DOMAIN RowAt(1) :
          /\ RowAt(2)[col] = RowAt(1)[col]
          /\ ~TakenFrom(RowAt(2)[col], BucketAt(Tree.o, leafs[2]), leafs[2])

\* the rank of key k in the order of String
KeyRank(k) == CHOOSE i \in 1..Len(KeyOrder) : KeyOrder[i] = k

\* the leaf places p and q lie under two sibling aggregations, the names at
\* position d, of one root or bucket object
Siblings(p, q, d) == d % 2 = 1 /\ PartAt(p, q, d)

\* C20: of two rows yielded under sibling bucket aggregations of one object
\* (the root, or a bucket) the earlier row is under the aggregation with the
\* greater name; and the rows under one aggregation of the object are
\* yielded in a run, no row under a sibling between them.
C20_LastPushedFirst ==
    HasTree =>
        /\ \A i, j \in 1..Len(rows) :
              i < j =>
                 \A d \in 1..Len(leafs[i]) :
                     Siblings(leafs[i], leafs[j], d) =>
                         KeyRank(leafs[i][d]) > KeyRank(leafs[j][d])
        /\ \A i, j, k \in 1..Len(rows) :
              (i < j /\ j < k) =>
                 \A d \in 1..Len(leafs[i]) :
                     (/\ d % 2 = 1
                      /\ d <= Len(leafs[k])
                      /\ SubSeq(leafs[i], 1, d) = SubSeq(leafs[k], 1, d)
                      /\ d <= Len(leafs[j])
                      /\ SubSeq(leafs[j], 1, d - 1) = SubSeq(leafs[i], 1, d - 1))
                     => leafs[j][d] = leafs[i][d]

\* a bucket of G nests a2 and sub: its row under sub has been yielded before
\* its row under a2
C20_Witness ==
    \E i, j \in 1..Len(rows) :
        /\ i < j
        /\ Len(leafs[i]) = 4
        /\ Len(leafs[j]) = 4
        /\ SubSeq(leafs[i], 1, 2) = SubSeq(leafs[j], 1, 2)
        /\ leafs[i][3] = "sub"
        /\ leafs[j][3] = "a2"

====
